---------------------------- MODULE Spec2Model ----------------------------
(***************************************************************************)
(* Model of the browser-side project search widget:                        *)
(*   - NLPURLResolver (src/js/nlp-url-resolver.js): the title -> slug      *)
(*     lookup table, init() and getProjectPageURL();                       *)
(*   - searchFeeds (src/unnamed/part_000): the exact / fuzzy match engine. *)
(*                                                                         *)
(* JavaScript strings are sequences of one-character strings, so that      *)
(* trim(), toLowerCase(), includes() and template concatenation are        *)
(* computed, not assumed.  A value that is not a string (undefined, a      *)
(* number, an inherited function object) is a one-element sequence whose   *)
(* element is longer than one character, so it never equals a string.      *)
(***************************************************************************)
EXTENDS Integers, Sequences, FiniteSets, TLC

VARIABLES
    listsMapping,   \* this.listsMapping: own properties of the table object
    isLoaded,       \* this.isLoaded
    pc,             \* position of each init() invocation
    lastBuilt,      \* history: results.data of the most recent mapping build
    lastOutcome,    \* history: what the most recently completed init() returned
    overlapped,     \* history: some init() was invoked while another was in flight
    lastCall,       \* the getProjectPageURL call just made, with its result
    feeds,          \* the record sequence handed to searchFeeds
    fuse,           \* the Fuse index handed to searchFeeds (or Null)
    lastSearch,     \* the searchFeeds call just made, with its result
    thresholdSlider,  \* thresholdSlider.value, in hundredths
    searchInput,      \* searchInput.value
    fuzzyCheckbox,    \* fuzzyCheckbox.checked
    searchResultsDiv, \* what searchResultsDiv.innerHTML shows
    callbacks,      \* history: the loadProjectFeeds callbacks invoked, in order
    rawRows,        \* history: results.data handed to the page's complete callback
    fuseDist,       \* the library's distances for the query being searched
    currentQuery,   \* the adapter's this.currentQuery
    lastResults,    \* the adapter's this.lastResults
    requests,       \* semantic-search requests sent and not yet answered
    content,        \* what the adapter's this.content.innerHTML shows
    isVisible,      \* the adapter's this.isVisible
    rendered        \* history: the response handled last, with its request

\* the adapter's fields and its requests
aiVars == <<currentQuery, lastResults, requests, content, isVisible, rendered>>

pageVars == <<thresholdSlider, searchInput, fuzzyCheckbox, searchResultsDiv,
              callbacks, rawRows, fuseDist, aiVars>>

vars == <<listsMapping, isLoaded, pc, lastBuilt, lastOutcome, overlapped,
          lastCall, feeds, fuse, lastSearch, pageVars>>

resolverVars == <<listsMapping, isLoaded, pc, lastBuilt, lastOutcome,
                  overlapped, lastCall>>

searchVars == <<feeds, fuse, lastSearch, pageVars>>

-----------------------------------------------------------------------------
(* Bounds *)

\* init() invocations on the one resolver object
MaxInits == 2

\* rows in the parsed lists.csv
MaxRows == 2

-----------------------------------------------------------------------------
(* JavaScript values and string primitives *)

Undefined == <<"undefined">>

\* a truthy value that is not a string (a number)
NotAString == <<"number">>

TypeError == <<"TypeError">>

IsString(v) == v \notin {Undefined, NotAString}

\* JavaScript truthiness of undefined and of strings: "" is falsy
Truthy(v) == v # Undefined /\ v # <<>>

IsSpace(c) == c \in {" ", "\t", "\n"}

LowerChar(c) ==
    CASE c = "A" -> "a"
      [] c = "B" -> "b"
      [] c = "N" -> "n"
      [] c = "O" -> "o"
      [] OTHER -> c

\* String.prototype.toLowerCase
ToLowerCase(s) == [i \in 1..Len(s) |-> LowerChar(s[i])]

RECURSIVE TrimStart(_)
TrimStart(s) ==
    IF s # <<>> /\ IsSpace(Head(s)) THEN TrimStart(Tail(s)) ELSE s

RECURSIVE TrimEnd(_)
TrimEnd(s) ==
    IF s # <<>> /\ IsSpace(s[Len(s)])
    THEN TrimEnd(SubSeq(s, 1, Len(s) - 1))
    ELSE s

\* String.prototype.trim
Trim(s) == TrimEnd(TrimStart(s))

\* v?.trim()
OptTrim(v) == IF v = Undefined THEN Undefined ELSE Trim(v)

\* template-literal / + concatenation
Concat(a, b) == a \o b

-----------------------------------------------------------------------------
(* The lookup table object: `{}` with Object.prototype behind it *)

\* Names every plain object inherits.  Two of Object.prototype's properties
\* are kept: a method (a function object) and the __proto__ accessor.
ValueOfName == <<"v", "a", "l", "u", "e", "O", "f">>

ProtoName == <<"_", "_", "p", "r", "o", "t", "o", "_", "_">>

\* String(Object.prototype.valueOf), as a template literal renders it
NativeFunction == <<"function valueOf() { [native code] }">>

\* String(Object.prototype)
ObjectObject == <<"[object Object]">>

ObjectPrototype == (ValueOfName :> NativeFunction) @@ (ProtoName :> ObjectObject)

\* obj[key]: own property first, then the prototype chain, else undefined
Get(obj, key) ==
    IF key \in DOMAIN obj THEN obj[key]
    ELSE IF key \in DOMAIN ObjectPrototype THEN ObjectPrototype[key]
    ELSE Undefined

\* obj[key] = value, value a string: the inherited __proto__ setter ignores
\* a value that is not an object and creates no own property
Put(obj, key, value) ==
    IF key = ProtoName THEN obj
    ELSE [k \in (DOMAIN obj) \cup {key} |-> IF k = key THEN value ELSE obj[k]]

EmptyObject == [k \in {} |-> <<>>]

-----------------------------------------------------------------------------
(* NLPURLResolver *)

\* window.location.origin
Origin == <<"h", "t", "t", "p", ":", "/", "/", "h">>

\* this.baseURL, fixed by the constructor
baseURL == Concat(Origin, <<"/", "t", "e", "a", "m", "/", "p", "r", "o", "j", "e", "c", "t", "s", "/">>)

ListPrefix == <<"#", "l", "i", "s", "t", "=">>

DisplaySuffix == <<"&", "d", "i", "s", "p", "l", "a", "y", "=", "t", "a", "b", "l", "e">>

\* `${this.baseURL}#list=${slug}&display=table`
ProjectPageURL(slug) == Concat(Concat(Concat(baseURL, ListPrefix), slug), DisplaySuffix)

\* the forEach body without the lowercased key
StoreRow_ExactKeyOnly(mapping, row) ==
    LET title == OptTrim(row.Title)
        feed == OptTrim(row.Feed)
    IN  IF Truthy(title) /\ Truthy(feed)
        THEN Put(mapping, title, feed)
        ELSE mapping

\* the body of results.data.forEach in loadListsMapping, for one row
StoreRow(mapping, row) ==
    LET title == OptTrim(row.Title)
        feed == OptTrim(row.Feed)
    IN  IF Truthy(title) /\ Truthy(feed)
        THEN Put(Put(mapping, title, feed), ToLowerCase(title), feed)
        ELSE mapping

\* results.data.forEach(...) over the parsed rows, in order
RECURSIVE BuildMapping(_, _)
BuildMapping(mapping, data) ==
    IF data = <<>> THEN mapping
    ELSE BuildMapping(StoreRow(mapping, Head(data)), Tail(data))

\* fallbackURL = '#' default parameter
FallbackOf(fallbackURL) == IF fallbackURL = Undefined THEN <<"#">> ELSE fallbackURL

\* getProjectPageURL without its `if (!this.isLoaded)` guard
getProjectPageURL_NoReadyGuard(loaded, mapping, projectTitle, fallbackURL) ==
    IF ~Truthy(projectTitle) THEN FallbackOf(fallbackURL)
    ELSE IF ~IsString(projectTitle) THEN TypeError
    ELSE LET exact == Get(mapping, Trim(projectTitle))
             slug == IF ~Truthy(exact)
                     THEN Get(mapping, ToLowerCase(Trim(projectTitle)))
                     ELSE exact
         IN  IF Truthy(slug) THEN ProjectPageURL(slug)
             ELSE FallbackOf(fallbackURL)

\* getProjectPageURL(projectTitle, fallbackURL) on a resolver whose fields
\* are (loaded, mapping); TypeError when .trim is called on a non-string
getProjectPageURL(loaded, mapping, projectTitle, fallbackURL) ==
    IF ~loaded THEN FallbackOf(fallbackURL)
    ELSE IF ~Truthy(projectTitle) THEN FallbackOf(fallbackURL)
    ELSE IF ~IsString(projectTitle) THEN TypeError
    ELSE LET exact == Get(mapping, Trim(projectTitle))
             slug == IF ~Truthy(exact)
                     THEN Get(mapping, ToLowerCase(Trim(projectTitle)))
                     ELSE exact
         IN  IF Truthy(slug) THEN ProjectPageURL(slug)
             ELSE FallbackOf(fallbackURL)

-----------------------------------------------------------------------------
(* Inputs of the resolver *)

SeqsUpTo(S, n) == UNION {[1..k -> S] : k \in 0..n}

\* lists.csv rows as Papa.parse (header: true) delivers them; a column the
\* row lacks is undefined.  Two titles differ only in case, cells carry
\* padding, three rows are incomplete or unstorable.
Rows ==
    { [Title |-> <<"A">>, Feed |-> <<"x">>],
      [Title |-> <<"a">>, Feed |-> <<" ", "y">>],
      [Title |-> <<" ", "b", " ">>, Feed |-> <<" ", "y">>],
      [Title |-> <<" ", "b", " ">>, Feed |-> Undefined],
      [Title |-> <<" ">>, Feed |-> <<"x">>],
      [Title |-> ProtoName, Feed |-> <<"x">>] }

\* results.data: zero rows included
Datasets == SeqsUpTo(Rows, MaxRows)

\* projectTitle arguments: strings in several cases and paddings, the
\* empty string, an inherited property name, undefined and a non-string
QueryTitles ==
    { <<"A">>, <<"a">>, <<" ", "B">>, ValueOfName, ProtoName, <<>>,
      Undefined, NotAString }

\* fallbackURL arguments; undefined takes the default
Fallbacks == {<<"f">>, Undefined}

-----------------------------------------------------------------------------
(* State of the resolver *)

Calls == 1..MaxInits

InFlight == {"fetching", "resolved", "rejected"}

NoCall == [made |-> FALSE]

NoData == <<>>

ResolverInit ==
    /\ listsMapping = EmptyObject
    /\ isLoaded = FALSE
    /\ pc = [p \in Calls |-> "idle"]
    /\ lastBuilt = NoData
    /\ lastOutcome = "none"
    /\ overlapped = FALSE
    /\ lastCall = NoCall

\* init() is invoked and runs to `await fetch(csvURL)`: no field is written
InitCall(p) ==
    /\ pc[p] = "idle"
    /\ \A q \in Calls : q < p => pc[q] # "idle"
    /\ pc' = [pc EXCEPT ![p] = "fetching"]
    /\ overlapped' = (overlapped \/ \E q \in Calls : pc[q] \in InFlight)
    /\ lastCall' = NoCall
    /\ UNCHANGED <<listsMapping, isLoaded, lastBuilt, lastOutcome, searchVars>>

\* fetch rejects, the status is not OK, or response.text() rejects:
\* loadListsMapping throws
FetchFails(p) ==
    /\ pc[p] = "fetching"
    /\ pc' = [pc EXCEPT ![p] = "rejected"]
    /\ lastCall' = NoCall
    /\ UNCHANGED <<listsMapping, isLoaded, lastBuilt, lastOutcome, overlapped, searchVars>>

\* Papa.parse reports through its error callback: reject
ParseError(p) ==
    /\ pc[p] = "fetching"
    /\ pc' = [pc EXCEPT ![p] = "rejected"]
    /\ lastCall' = NoCall
    /\ UNCHANGED <<listsMapping, isLoaded, lastBuilt, lastOutcome, overlapped, searchVars>>

\* the complete callback on results.data = data: zero rows reject; otherwise
\* every row is stored into this.listsMapping and the promise resolves
Complete(p, data) ==
    /\ pc[p] = "fetching"
    /\ IF Len(data) = 0
       THEN /\ pc' = [pc EXCEPT ![p] = "rejected"]
            /\ UNCHANGED listsMapping
       ELSE /\ pc' = [pc EXCEPT ![p] = "resolved"]
            /\ listsMapping' = BuildMapping(listsMapping, data)
    /\ lastCall' = NoCall
    /\ UNCHANGED <<isLoaded, lastOutcome, overlapped, searchVars>>

ParseComplete(p) ==
    /\ \E data \in Datasets : Complete(p, data)
    /\ UNCHANGED lastBuilt

\* the same step, keeping results.data of a build as history
ParseCompleteLogged(p) ==
    \E data \in Datasets :
        /\ Complete(p, data)
        /\ lastBuilt' = IF Len(data) = 0 THEN lastBuilt ELSE data

\* init() resumes after the await: isLoaded = true; return true
InitReturn(p) ==
    /\ pc[p] = "resolved"
    /\ pc' = [pc EXCEPT ![p] = "doneOk"]
    /\ isLoaded' = TRUE
    /\ lastOutcome' = "ok"
    /\ lastCall' = NoCall
    /\ UNCHANGED <<listsMapping, lastBuilt, overlapped, searchVars>>

\* init()'s catch without `this.isLoaded = false`
InitCatch_KeepsLoaded(p) ==
    /\ pc[p] = "rejected"
    /\ pc' = [pc EXCEPT ![p] = "doneFail"]
    /\ lastOutcome' = "failed"
    /\ lastCall' = NoCall
    /\ UNCHANGED <<isLoaded, listsMapping, lastBuilt, overlapped, searchVars>>

\* init()'s catch: isLoaded = false; return false
InitCatch(p) ==
    /\ pc[p] = "rejected"
    /\ pc' = [pc EXCEPT ![p] = "doneFail"]
    /\ isLoaded' = FALSE
    /\ lastOutcome' = "failed"
    /\ lastCall' = NoCall
    /\ UNCHANGED <<listsMapping, lastBuilt, overlapped, searchVars>>

\* a caller (renderSearchResults, the adapter's cards) resolves a title
Resolve ==
    /\ \E title \in QueryTitles, fallbackURL \in Fallbacks :
          lastCall' = [made |-> TRUE, title |-> title,
                       fallbackURL |-> fallbackURL,
                       result |-> getProjectPageURL(isLoaded, listsMapping,
                                                    title, fallbackURL)]
    /\ UNCHANGED <<listsMapping, isLoaded, pc, lastBuilt, lastOutcome, overlapped, searchVars>>

-----------------------------------------------------------------------------
(* The match engine: searchFeeds *)

\* String.prototype.includes
Includes(s, sub) ==
    \E i \in 0..(Len(s) - Len(sub)) : SubSeq(s, i + 1, i + Len(sub)) = sub

\* `let fuse;` before initializeFuzzySearch has run
NoIndex == [built |-> FALSE]

\* new Fuse(feeds, {keys, threshold, includeScore: true}); threshold in
\* hundredths
initializeFuzzySearch(docs, threshold) ==
    [built |-> TRUE, docs |-> docs, threshold |-> threshold]

\* the filter predicate comparing the fields as they are cased
ExactMatch_FieldsNotLowered(f, lowerQuery) ==
    \/ Includes(f.Title, lowerQuery)
    \/ Includes(f.Description, lowerQuery)

\* the filter predicate looking into every indexed field
ExactMatch_AnyField(f, lowerQuery) ==
    \/ Includes(ToLowerCase(f.Title), lowerQuery)
    \/ Includes(ToLowerCase(f.Description), lowerQuery)
    \/ Includes(ToLowerCase(f.Team), lowerQuery)
    \/ Includes(ToLowerCase(f.Tags), lowerQuery)
    \/ Includes(ToLowerCase(f.Location), lowerQuery)

\* the filter predicate of the exact branch
ExactMatch(f, lowerQuery) ==
    \/ Includes(ToLowerCase(f.Title), lowerQuery)
    \/ Includes(ToLowerCase(f.Description), lowerQuery)

\* the matches collected last record first
RECURSIVE ExactResults_Reversed(_, _)
ExactResults_Reversed(fs, lowerQuery) ==
    IF fs = <<>> THEN <<>>
    ELSE ExactResults_Reversed(Tail(fs), lowerQuery)
         \o (IF ExactMatch(Head(fs), lowerQuery)
             THEN <<[item |-> Head(fs)]>> ELSE <<>>)

\* feeds.filter(...).map(f => ({ item: f }))
RECURSIVE ExactResults(_, _)
ExactResults(fs, lowerQuery) ==
    IF fs = <<>> THEN <<>>
    ELSE (IF ExactMatch(Head(fs), lowerQuery)
          THEN <<[item |-> Head(fs)]>> ELSE <<>>)
         \o ExactResults(Tail(fs), lowerQuery)

\* distances Fuse may report, in hundredths
Scores == {0, 30}

\* the distance of a document Fuse leaves out
Miss == 0 - 1

\* the distances the library computes for one query, per document of the
\* index: a function of the query and the documents that the threshold
\* does not influence
Distances(docs) == [1..Len(docs) -> Scores \cup {Miss}]

\* no index, no distances
NoDist == <<>>

\* the entries of the documents at distance sc, in document order
FuseEntries(docs, dist, sc) ==
    LET hits == {i \in 1..Len(docs) : dist[i] = sc}
        RECURSIVE inOrder(_)
        inOrder(S) ==
            IF S = {} THEN <<>>
            ELSE LET i == CHOOSE x \in S : \A y \in S : x <= y
                 IN  <<[item |-> docs[i], refIndex |-> i, score |-> sc]>>
                     \o inOrder(S \ {i})
    IN  inOrder(hits)

\* fuseInstance.search(query): the library's contract, not its algorithm.
\* The documents whose distance is within index.threshold, sorted by
\* score, equal scores by document index.
FuseSearch(index, dist) ==
    LET RECURSIVE byScore(_)
        byScore(S) ==
            IF S = {} THEN <<>>
            ELSE LET sc == CHOOSE x \in S : \A y \in S : x <= y
                 IN  FuseEntries(index.docs, dist, sc) \o byScore(S \ {sc})
    IN  byScore({sc \in Scores : sc <= index.threshold})

\* the distance functions one call may meet: the library computes
\* distances only where the call reaches fuseInstance.search
DistancesOf(query, fuseInstance, useFuzzy) ==
    IF Trim(query) # <<>> /\ useFuzzy /\ fuseInstance.built
    THEN Distances(fuseInstance.docs)
    ELSE {NoDist}

\* searchFeeds handing back the library's entries last first
searchFeeds_FuzzyReversed(query, fs, fuseInstance, useFuzzy, dist) ==
    IF Trim(query) = <<>> THEN <<>>
    ELSE IF useFuzzy /\ fuseInstance.built
         THEN LET r == FuseSearch(fuseInstance, dist)
              IN  [j \in 1..Len(r) |-> r[Len(r) + 1 - j]]
    ELSE ExactResults(fs, ToLowerCase(query))

\* searchFeeds without its `if (!query.trim())` guard
searchFeeds_NoEmptyGuard(query, fs, fuseInstance, useFuzzy, dist) ==
    IF useFuzzy /\ fuseInstance.built THEN FuseSearch(fuseInstance, dist)
    ELSE ExactResults(fs, ToLowerCase(query))

\* what a caller sees when searchFeeds throws a TypeError
SearchTypeError == <<[error |-> "TypeError"]>>

\* searchFeeds testing `useFuzzy` alone: search is called on no index
searchFeeds_FuzzyNeedsIndex(query, fs, fuseInstance, useFuzzy, dist) ==
    IF Trim(query) = <<>> THEN <<>>
    ELSE IF useFuzzy
         THEN (IF fuseInstance.built THEN FuseSearch(fuseInstance, dist)
               ELSE SearchTypeError)
    ELSE ExactResults(fs, ToLowerCase(query))

\* searchFeeds(query, feeds, fuseInstance, useFuzzy); dist is what the
\* library computes for the query when the fuzzy branch asks it
searchFeeds(query, fs, fuseInstance, useFuzzy, dist) ==
    IF Trim(query) = <<>> THEN <<>>
    ELSE IF useFuzzy /\ fuseInstance.built THEN FuseSearch(fuseInstance, dist)
    ELSE ExactResults(fs, ToLowerCase(query))

\* normalized records: Title and Description are never empty
Records ==
    { [Title |-> <<"A", " ", "b">>, Description |-> <<"c">>,
       Team |-> <<>>, Tags |-> <<>>, Location |-> <<>>],
      [Title |-> <<"b">>, Description |-> <<"a", "B">>,
       Team |-> <<"c">>, Tags |-> <<>>, Location |-> <<>>],
      [Title |-> <<"c">>, Description |-> <<"c">>,
       Team |-> <<"a">>, Tags |-> <<"b">>, Location |-> <<"A">>] }

\* records handed to one search
MaxFeeds == 2

FeedSets == SeqsUpTo(Records, MaxFeeds)

Substrings(s) == {SubSeq(s, i, j) : i \in 1..(Len(s) + 1), j \in 0..Len(s)}

\* queries: every substring of every title and description, and strings
\* that are none
Queries ==
    UNION {Substrings(r.Title) \cup Substrings(r.Description) : r \in Records}
    \cup {<<"a", " ", "B">>, <<" ", " ">>, <<"C", " ">>, <<"z">>}

\* slider positions for the index's threshold, in hundredths
Thresholds == {0, 35}

\* no searchFeeds call made
NoSearch == [made |-> FALSE]

\* the page's complete callback has not run
NotParsed == [parsed |-> FALSE]

\* this.lastResults = null
NoResults == [set |-> FALSE]

\* no response has been handled
NoRender == [made |-> FALSE]

\* the adapter as its constructor leaves it
AiIdle ==
    /\ currentQuery = <<>>
    /\ lastResults = NoResults
    /\ requests = <<>>
    /\ content = [kind |-> "blank"]
    /\ isVisible = FALSE
    /\ rendered = NoRender

\* the page's controls and history, untouched
PageIdle ==
    /\ thresholdSlider = 35
    /\ searchInput = <<>>
    /\ fuzzyCheckbox = FALSE
    /\ searchResultsDiv = [kind |-> "loading"]
    /\ callbacks = <<>>
    /\ rawRows = NotParsed
    /\ fuseDist = NoDist
    /\ AiIdle

SearchIdle ==
    /\ feeds = <<>>
    /\ fuse = NoIndex
    /\ lastSearch = NoSearch
    /\ PageIdle

\* a search is set up: some records, and an index or none
SearchInit ==
    /\ ResolverInit
    /\ feeds \in FeedSets
    /\ fuse \in {NoIndex} \cup
               {initializeFuzzySearch(feeds, th) : th \in Thresholds}
    /\ lastSearch = NoSearch
    /\ PageIdle

\* one call of searchFeeds on the records and index at hand
SearchFeeds ==
    /\ \E query \in Queries, useFuzzy \in BOOLEAN :
        \E dist \in DistancesOf(query, fuse, useFuzzy) :
          lastSearch' = [made |-> TRUE, query |-> query, useFuzzy |-> useFuzzy,
                         result |-> searchFeeds(query, feeds, fuse, useFuzzy, dist)]
    /\ UNCHANGED <<feeds, fuse, pageVars, resolverVars>>

SearchNext == SearchFeeds

SearchSpec == SearchInit /\ [][SearchNext]_vars

-----------------------------------------------------------------------------
(* loadProjectFeeds: rows to records *)

\* a || b
Or(a, b) == IF Truthy(a) THEN a ELSE b

NoTitle == <<"(", "N", "o", " ", "t", "i", "t", "l", "e", ")">>

NoDescription ==
    <<"(", "N", "o", " ", "d", "e", "s", "c", "r", "i", "p", "t", "i", "o", "n", ")">>

\* the record made of a row, with no placeholder behind the title
Normalize_NoPlaceholder(r) ==
    [Title |-> Or(OptTrim(r.Title), OptTrim(r.Name)),
     Description |-> Or(Or(OptTrim(r.Description), OptTrim(r.About)), NoDescription),
     URL |-> Or(Or(OptTrim(r.URL), OptTrim(r.Link)), <<"#">>),
     Team |-> Or(OptTrim(r.Team), <<>>),
     Status |-> Or(OptTrim(r.Status), <<>>),
     Location |-> Or(OptTrim(r.Location), <<>>),
     Tags |-> Or(OptTrim(r.Tags), <<>>),
     _raw |-> r]

\* the record results.data.map makes of the row r
Normalize(r) ==
    [Title |-> Or(Or(OptTrim(r.Title), OptTrim(r.Name)), NoTitle),
     Description |-> Or(Or(OptTrim(r.Description), OptTrim(r.About)), NoDescription),
     URL |-> Or(Or(OptTrim(r.URL), OptTrim(r.Link)), <<"#">>),
     Team |-> Or(OptTrim(r.Team), <<>>),
     Status |-> Or(OptTrim(r.Status), <<>>),
     Location |-> Or(OptTrim(r.Location), <<>>),
     Tags |-> Or(OptTrim(r.Tags), <<>>),
     _raw |-> r]

\* results.data.map(r => ({...}))
NormalizeAll(data) == [i \in 1..Len(data) |-> Normalize(data[i])]

\* a row of a sheet that has none of the columns read
AbsentRow ==
    [Title |-> Undefined, Name |-> Undefined, Description |-> Undefined,
     About |-> Undefined, URL |-> Undefined, Link |-> Undefined,
     Team |-> Undefined, Status |-> Undefined, Location |-> Undefined,
     Tags |-> Undefined]

\* rows of the project sheet: one complete, one under the alias columns
\* with a blank description
RawRows ==
    { [AbsentRow EXCEPT !.Title = <<"A">>, !.Description = <<"c">>,
                        !.URL = <<"u">>],
      [AbsentRow EXCEPT !.Name = <<" ", "b">>, !.Description = <<" ">>,
                        !.Team = <<"c">>] }

\* results.data of the project sheet: zero rows included
RawDatasets == SeqsUpTo(RawRows, MaxFeeds)

\* what a cell may hold: nothing (no such column), the empty string, white
\* space, padded text
CellValues == {Undefined, <<>>, <<" ">>, <<" ", "a", " ">>}

\* every row over the columns the five searchable fields are read from
WideRows ==
    { [AbsentRow EXCEPT !.Title = c[1], !.Name = c[2], !.Description = c[3],
                        !.About = c[4], !.Team = c[5], !.Tags = c[6],
                        !.Location = c[7]] : c \in [1..7 -> CellValues] }

-----------------------------------------------------------------------------
(* The search page: the DOMContentLoaded handler of nlp.js *)

\* loadProjectFeeds has invoked neither callback yet
LoadInFlight == callbacks = <<>>

\* onSuccess ran, with the slider at th
OnSuccess(th) == [fn |-> "onSuccess", th |-> th]

OnError == [fn |-> "onError"]

\* window.nlpAI?.urlResolver: set once the adapter's init() has made it
UrlResolverPresent == pc[1] # "idle"

\* renderSearchResults(results, urlResolver), results not empty: the cards
renderSearchResults(results, present, loaded, mapping) ==
    [j \in 1..Len(results) |->
        [Title |-> results[j].item.Title,
         Description |-> results[j].item.Description,
         href |-> IF present
                  THEN getProjectPageURL(loaded, mapping, results[j].item.Title,
                                         results[j].item.URL)
                  ELSE results[j].item.URL]]

\* doSearch with the records sorted in place before the search
doSearch_SortsFeeds(value, checked, index, d0) ==
    /\ UNCHANGED <<listsMapping, isLoaded, searchResultsDiv>>
    /\ feeds' = [i \in 1..Len(feeds) |-> feeds[Len(feeds) + 1 - i]]
    /\ lastSearch' = NoSearch
    /\ fuseDist' = d0

\* doSearch() with searchInput.value = value, fuzzyCheckbox.checked =
\* checked and fuse = index; d0 is what the library has computed for this
\* query so far
doSearch(value, checked, index, d0) ==
    /\ UNCHANGED <<feeds, listsMapping, isLoaded>>
    /\ IF Len(feeds) = 0
       THEN /\ UNCHANGED searchResultsDiv
            /\ lastSearch' = NoSearch
            /\ fuseDist' = d0
       ELSE IF Trim(value) = <<>>
       THEN /\ searchResultsDiv' = [kind |-> "empty"]
            /\ lastSearch' = NoSearch
            /\ fuseDist' = d0
       ELSE \E d \in (IF checked /\ index.built /\ d0 = NoDist
                      THEN Distances(index.docs) ELSE {d0}) :
              LET results == searchFeeds(Trim(value), feeds, index, checked, d)
              IN  /\ lastSearch' = [made |-> TRUE, query |-> Trim(value),
                                    useFuzzy |-> checked, result |-> results]
                  /\ fuseDist' = d
                  /\ searchResultsDiv' =
                       IF Len(results) = 0
                       THEN [kind |-> "noResults", query |-> Trim(value)]
                       ELSE [kind |-> "cards",
                             cards |-> renderSearchResults(results,
                                          UrlResolverPresent, isLoaded,
                                          listsMapping)]

\* what the user may type
PageQueries == {<<>>, <<"a">>, <<" ", "c">>}

\* the complete callback calling onSuccess whatever the number of rows
LoadComplete_NoEmptyCheck(data, fuseDefined) ==
    /\ LoadInFlight
    /\ rawRows' = [parsed |-> TRUE, data |-> data]
    /\ feeds' = NormalizeAll(data)
    /\ fuse' = initializeFuzzySearch(feeds', thresholdSlider)
    /\ callbacks' = <<OnSuccess(thresholdSlider)>>
    /\ searchResultsDiv' = [kind |-> "loaded", count |-> Len(feeds')]
    /\ UNCHANGED <<thresholdSlider, searchInput, fuzzyCheckbox, fuseDist,
                   lastSearch, aiVars, resolverVars>>

\* Papa.parse's complete callback on results.data = data.  Zero rows:
\* onError.  Otherwise onSuccess(feeds): the page keeps the records and
\* builds the index; where the Fuse library is not defined the callback
\* throws after keeping the records, and the promise chain's catch calls
\* onError.
LoadComplete(data, fuseDefined) ==
    /\ LoadInFlight
    /\ rawRows' = [parsed |-> TRUE, data |-> data]
    /\ IF Len(data) = 0
       THEN /\ callbacks' = <<OnError>>
            /\ searchResultsDiv' = [kind |-> "error", message |-> "NoData"]
            /\ UNCHANGED <<feeds, fuse>>
       ELSE /\ feeds' = NormalizeAll(data)
            /\ IF fuseDefined
               THEN /\ fuse' = initializeFuzzySearch(feeds', thresholdSlider)
                    /\ callbacks' = <<OnSuccess(thresholdSlider)>>
                    /\ searchResultsDiv' = [kind |-> "loaded",
                                            count |-> Len(feeds')]
               ELSE /\ UNCHANGED fuse
                    /\ callbacks' = <<OnSuccess(thresholdSlider), OnError>>
                    /\ searchResultsDiv' = [kind |-> "error",
                                            message |-> "LoadError"]
    /\ UNCHANGED <<thresholdSlider, searchInput, fuzzyCheckbox, fuseDist,
                   lastSearch, aiVars, resolverVars>>

LoadParsed ==
    \E data \in RawDatasets, fuseDefined \in BOOLEAN :
        LoadComplete(data, fuseDefined)

\* fetch rejects, the status is not OK or response.text() rejects: the
\* catch calls onError
LoadFetchFails ==
    /\ LoadInFlight
    /\ callbacks' = <<OnError>>
    /\ searchResultsDiv' = [kind |-> "error", message |-> "LoadError"]
    /\ UNCHANGED <<feeds, fuse, lastSearch, thresholdSlider, searchInput,
                   fuzzyCheckbox, rawRows, fuseDist, aiVars, resolverVars>>

\* Papa.parse reports through its error callback: onError
LoadParseError ==
    /\ LoadInFlight
    /\ callbacks' = <<OnError>>
    /\ searchResultsDiv' = [kind |-> "error", message |-> "ParseError"]
    /\ UNCHANGED <<feeds, fuse, lastSearch, thresholdSlider, searchInput,
                   fuzzyCheckbox, rawRows, fuseDist, aiVars, resolverVars>>

\* the rest of the page's state, for the listeners
listenerFrame ==
    <<callbacks, rawRows, aiVars, pc, lastBuilt, lastOutcome, overlapped, lastCall>>

\* searchInput "input": the user changes the query
QueryInput ==
    /\ \E value \in PageQueries :
          /\ value # searchInput
          /\ searchInput' = value
          /\ doSearch(value, fuzzyCheckbox, fuse, NoDist)
    /\ UNCHANGED <<fuse, thresholdSlider, fuzzyCheckbox, listenerFrame>>

\* searchInput "keydown" with Enter
KeyEnter ==
    /\ doSearch(searchInput, fuzzyCheckbox, fuse, fuseDist)
    /\ UNCHANGED <<fuse, thresholdSlider, searchInput, fuzzyCheckbox, listenerFrame>>

\* the slider listener moving the slider and leaving the index as built
ThresholdInput_SliderOnly ==
    /\ \E value \in Thresholds :
          /\ value # thresholdSlider
          /\ thresholdSlider' = value
    /\ doSearch(searchInput, fuzzyCheckbox, fuse, fuseDist)
    /\ UNCHANGED <<fuse, searchInput, fuzzyCheckbox, listenerFrame>>

\* thresholdSlider "input": retune the index if there is one, then search
ThresholdInput ==
    /\ \E value \in Thresholds :
          /\ value # thresholdSlider
          /\ thresholdSlider' = value
          /\ fuse' = IF fuse.built THEN [fuse EXCEPT !.threshold = value]
                     ELSE fuse
    /\ doSearch(searchInput, fuzzyCheckbox, fuse', fuseDist)
    /\ UNCHANGED <<searchInput, fuzzyCheckbox, listenerFrame>>

\* fuzzyCheckbox "change"
FuzzyChange ==
    /\ fuzzyCheckbox' = ~fuzzyCheckbox
    /\ doSearch(searchInput, fuzzyCheckbox', fuse, fuseDist)
    /\ UNCHANGED <<fuse, thresholdSlider, searchInput, listenerFrame>>

\* lists.csv as the adapter's resolver may find it
ListsData ==
    { <<>>,
      <<[Title |-> <<"A">>, Feed |-> <<"x">>],
        [Title |-> <<"a">>, Feed |-> <<" ", "y">>]>> }

\* NLPAIAdapter.init(): new NLPURLResolver(), then its init()
AdapterInit == InitCall(1)

AdapterFetchFails == FetchFails(1)

AdapterParse ==
    /\ \E data \in ListsData : Complete(1, data)
    /\ UNCHANGED lastBuilt

AdapterInitReturn == InitReturn(1)

AdapterInitCatch == InitCatch(1)

-----------------------------------------------------------------------------
(* The AI search: NLPAIAdapter.onProviderClick *)

\* requests that may be unanswered at once
MaxRequests == 2

\* a match of the service's response
AiMatches ==
    { [title |-> <<"A">>, Title |-> Undefined, url |-> <<"u">>, URL |-> Undefined] }

\* what a request may be answered with.  ok: the fetch resolved with an OK
\* status and a JSON body; has: whether result.matches is falsy ("none"),
\* an array ("array") or another truthy value ("other")
Responses ==
    {[ok |-> FALSE, success |-> FALSE, has |-> "none", matches |-> <<>>]}
    \cup {[ok |-> TRUE, success |-> b, has |-> "none", matches |-> <<>>] :
             b \in BOOLEAN}
    \cup {[ok |-> TRUE, success |-> TRUE, has |-> "other", matches |-> <<>>]}
    \cup {[ok |-> TRUE, success |-> TRUE, has |-> "array", matches |-> ms] :
             ms \in {<<>>} \cup {<<m>> : m \in AiMatches}}

\* displayDefaultMessage()
DefaultMessage == [kind |-> "default"]

\* displayNoResults(query)
displayNoResults(query) == [kind |-> "noResults", query |-> query]

\* buildProjectCards(matches): a card per match, linked through
\* this.urlResolver
buildProjectCards(matches, loaded, mapping) ==
    [j \in 1..Len(matches) |->
        LET title == Or(Or(matches[j].title, matches[j].Title), NoTitle)
            originalURL == Or(Or(matches[j].url, matches[j].URL), <<"#">>)
        IN  [title |-> title,
             href |-> getProjectPageURL(loaded, mapping, title, originalURL)]]

\* displaySearchResults(results, query) on a result object
displaySearchResults(results, query, loaded, mapping) ==
    IF results.has # "array" THEN displayNoResults(query)
    ELSE IF Len(results.matches) = 0 THEN displayNoResults(query)
    ELSE [kind |-> "results", total |-> Len(results.matches),
          cards |-> buildProjectCards(results.matches, loaded, mapping)]

\* NLPAIAdapter.init() resumes after `await this.urlResolver.init()`:
\* show() and displayDefaultMessage()
AdapterInitResume ==
    /\ pc[1] \in {"doneOk", "doneFail"}
    /\ ~isVisible
    /\ isVisible' = TRUE
    /\ content' = DefaultMessage
    /\ UNCHANGED <<currentQuery, lastResults, requests, rendered, feeds, fuse,
                   lastSearch, thresholdSlider, searchInput, fuzzyCheckbox,
                   searchResultsDiv, callbacks, rawRows, fuseDist,
                   resolverVars>>

\* onProviderClick(provider) up to `await fetch(...)`, on a button the
\* adapter's init() has rendered: this.currentQuery is set from the input
\* before the validation; a blank query or no records alerts and returns;
\* otherwise the request is sent with this.currentQuery in its body
ProviderClick ==
    /\ UrlResolverPresent
    /\ currentQuery' = Trim(searchInput)
    /\ IF currentQuery' = <<>> \/ Len(feeds) = 0
       THEN UNCHANGED <<searchResultsDiv, content, requests>>
       ELSE /\ Len(requests) < MaxRequests
            /\ searchResultsDiv' = [kind |-> "empty"]
            /\ content' = [kind |-> "loading", count |-> Len(feeds)]
            /\ requests' = Append(requests, [query |-> currentQuery',
                                             provider |-> "gemini"])
    /\ UNCHANGED <<lastResults, isVisible, rendered, feeds, fuse, lastSearch,
                   thresholdSlider, searchInput, fuzzyCheckbox, callbacks,
                   rawRows, fuseDist, resolverVars>>

\* the sequence without its i-th element
RemoveAt(seq, i) ==
    [j \in 1..(Len(seq) - 1) |-> IF j < i THEN seq[j] ELSE seq[j + 1]]

\* onProviderClick resumes with the response to one of its requests: a
\* failed fetch, a status that is not OK or a body that is not JSON shows
\* the error; a result with success and matches is displayed with
\* this.currentQuery and kept in this.lastResults; any other result
\* shows the error
SearchResponse ==
    /\ \E i \in 1..Len(requests), response \in Responses :
          /\ requests' = RemoveAt(requests, i)
          /\ rendered' = [made |-> TRUE, request |-> requests[i],
                          response |-> response]
          /\ IF ~response.ok
             THEN /\ content' = [kind |-> "error", message |-> "ServiceError"]
                  /\ UNCHANGED lastResults
             ELSE IF response.success /\ response.has # "none"
             THEN /\ content' = displaySearchResults(response, currentQuery,
                                                     isLoaded, listsMapping)
                  /\ lastResults' = [set |-> TRUE, result |-> response]
             ELSE /\ content' = [kind |-> "error", message |-> "NoResults"]
                  /\ UNCHANGED lastResults
    /\ UNCHANGED <<currentQuery, isVisible, feeds, fuse, lastSearch,
                   thresholdSlider, searchInput, fuzzyCheckbox,
                   searchResultsDiv, callbacks, rawRows, fuseDist,
                   resolverVars>>

Init == ResolverInit /\ SearchIdle

Next ==
    \/ \E p \in Calls : InitCall(p)
    \/ \E p \in Calls : FetchFails(p)
    \/ \E p \in Calls : ParseError(p)
    \/ \E p \in Calls : ParseComplete(p)
    \/ \E p \in Calls : InitReturn(p)
    \/ \E p \in Calls : InitCatch(p)
    \/ Resolve

Spec == Init /\ [][Next]_vars

\* the resolver with the history of the dataset last built
NextLogged ==
    \/ \E p \in Calls : InitCall(p)
    \/ \E p \in Calls : FetchFails(p)
    \/ \E p \in Calls : ParseError(p)
    \/ \E p \in Calls : ParseCompleteLogged(p)
    \/ \E p \in Calls : InitReturn(p)
    \/ \E p \in Calls : InitCatch(p)
    \/ Resolve

LoadSpec == Init /\ [][NextLogged]_vars

\* the search page with the adapter's resolver
PageNext ==
    \/ LoadParsed
    \/ LoadFetchFails
    \/ LoadParseError
    \/ QueryInput
    \/ KeyEnter
    \/ ThresholdInput
    \/ FuzzyChange
    \/ AdapterInit
    \/ AdapterFetchFails
    \/ AdapterParse
    \/ AdapterInitReturn
    \/ AdapterInitCatch

PageSpec == Init /\ [][PageNext]_vars

\* the sheet parses to no row or to one, with the Fuse library defined
AiLoadParsed ==
    \E data \in SeqsUpTo(RawRows, 1) : LoadComplete(data, TRUE)

\* the search page with the adapter and its AI search
AiNext ==
    \/ AiLoadParsed
    \/ LoadFetchFails
    \/ QueryInput
    \/ AdapterInit
    \/ AdapterFetchFails
    \/ AdapterParse
    \/ AdapterInitReturn
    \/ AdapterInitCatch
    \/ AdapterInitResume
    \/ ProviderClick
    \/ SearchResponse

AiSpec == Init /\ [][AiNext]_vars

\* one load of a one-row sheet, over every row
LoadWide == \E row \in WideRows : LoadComplete(<<row>>, TRUE)

FeedNext == LoadWide

FeedSpec == Init /\ [][FeedNext]_vars

-----------------------------------------------------------------------------
(* Vocabulary of the properties *)

\* what the resolver object would answer now
ResolveNow(title, fallbackURL) ==
    getProjectPageURL(isLoaded, listsMapping, title, fallbackURL)

\* no init() is between its invocation and its return
Quiet == \A p \in Calls : pc[p] \notin InFlight

\* the invocations whose complete callback has stored rows
Builders == {p \in Calls : pc[p] \in {"resolved", "doneOk"}}

Succeeded == {p \in Calls : pc[p] = "doneOk"}

\* every argument returns the fallback, and so did the call just made
AllFallback ==
    /\ \A title \in QueryTitles, fallbackURL \in Fallbacks :
          ResolveNow(title, fallbackURL) = FallbackOf(fallbackURL)
    /\ lastCall.made => lastCall.result = FallbackOf(lastCall.fallbackURL)

\* the call just made asked for a title that is a key of the table
AskedStoredTitle ==
    /\ lastCall.made
    /\ IsString(lastCall.title)
    /\ Trim(lastCall.title) \in DOMAIN listsMapping

-----------------------------------------------------------------------------
(* C1 *)

-----------------------------------------------------------------------------
(* C2 *)

\* C2: whenever an init() has failed and returned, the lookup table is
\* empty, also when an earlier init() had succeeded.
C2_FailedInitLeavesTableEmpty ==
    (~overlapped /\ Quiet /\ lastOutcome = "failed")
    => (isLoaded = FALSE /\ DOMAIN listsMapping = {})

-----------------------------------------------------------------------------
(* C3 *)

\* C3: from the return of a failed init() until an init() returns success,
\* getProjectPageURL returns the fallback for every title, also one that is
\* a key of the table, and raises nothing.
C3_FailedResolvesToFallback == lastOutcome = "failed" => AllFallback

\* a title stored by an earlier successful init() was asked for after a
\* failed one, and the fallback came back
C3_Witness ==
    /\ lastOutcome = "failed"
    /\ AskedStoredTitle
    /\ lastCall.result = FallbackOf(lastCall.fallbackURL)

-----------------------------------------------------------------------------
(* C4 *)

\* C4: as long as no init() has returned (none invoked, or invoked and in
\* flight), getProjectPageURL returns the fallback for every title and
\* raises nothing.
C4_PreReadyResolvesToFallback == lastOutcome = "none" => AllFallback

\* the first init() has stored its rows but has not returned yet, and a
\* stored title was asked for
C4_Witness ==
    /\ lastOutcome = "none"
    /\ \E p \in Calls : pc[p] = "resolved"
    /\ AskedStoredTitle
    /\ lastCall.result = FallbackOf(lastCall.fallbackURL)

-----------------------------------------------------------------------------
(* C5 *)

\* C5: while an init() is between its invocation and its return the
\* resolver is not ready, also when it was invoked on a ready resolver, so
\* getProjectPageURL returns the fallback during that window.
C5_LoadingIsNotReady ==
    (~overlapped /\ \E p \in Calls : pc[p] \in InFlight)
    => (isLoaded = FALSE /\ AllFallback)

-----------------------------------------------------------------------------
(* C6 *)

UpperChar(c) ==
    CASE c = "a" -> "A"
      [] c = "b" -> "B"
      [] c = "n" -> "N"
      [] c = "o" -> "O"
      [] OTHER -> c

\* String.prototype.toUpperCase
ToUpperCase(s) == [i \in 1..Len(s) |-> UpperChar(s[i])]

\* the strings that differ from s in the case of letters only
RECURSIVE CaseVariants(_)
CaseVariants(s) ==
    IF s = <<>> THEN {<<>>}
    ELSE {<<c>> \o rest : c \in {LowerChar(Head(s)), UpperChar(Head(s))},
                          rest \in CaseVariants(Tail(s))}

\* C6 as claimed: once ready, for every dataset and every title with a
\* valid row in it (every key of a table built by one init()), a call with
\* the title upper-cased, lower-cased or in any other case returns the URL
\* the title itself resolves to.
C6_EveryCaseSameURL ==
    (/\ isLoaded
     /\ Cardinality(Builders) = 1
     /\ lastCall.made
     /\ IsString(lastCall.title))
    => \A key \in DOMAIN listsMapping :
         Trim(lastCall.title) \in CaseVariants(key)
                                  \cup {ToUpperCase(key), ToLowerCase(key)}
         => lastCall.result = ResolveNow(key, lastCall.fallbackURL)

\* C6 as amended: once ready, every case variant of a stored title that the
\* exact-match lookup does not find resolves to one URL, the project URL of
\* what the table holds under the lowercased title.
C6_CaseVariantsBehindExactMatch ==
    isLoaded
    => \A key \in DOMAIN listsMapping, fallbackURL \in Fallbacks :
         \A variant \in CaseVariants(key) :
            ~Truthy(Get(listsMapping, variant))
            => ResolveNow(variant, fallbackURL)
                 = ProjectPageURL(Get(listsMapping, ToLowerCase(key)))

\* a title was asked for in a case no row has, and the slug of the row
\* with the other case came back
C6_Witness ==
    /\ isLoaded
    /\ lastCall.made
    /\ IsString(lastCall.title)
    /\ Trim(lastCall.title) \notin DOMAIN listsMapping
    /\ \E key \in DOMAIN listsMapping :
          /\ Trim(lastCall.title) \in CaseVariants(key)
          /\ lastCall.result = ProjectPageURL(listsMapping[ToLowerCase(key)])

-----------------------------------------------------------------------------
(* C7 *)

\* C7: once ready, for every title string, getProjectPageURL returns the
\* fallback if and only if neither the trimmed title nor the trimmed and
\* lowercased title is a key stored in the table.
C7_FallbackIffNoStoredKey ==
    (isLoaded /\ lastCall.made /\ IsString(lastCall.title))
    => ((lastCall.result = FallbackOf(lastCall.fallbackURL))
        <=> (/\ Trim(lastCall.title) \notin DOMAIN listsMapping
             /\ ToLowerCase(Trim(lastCall.title)) \notin DOMAIN listsMapping))

-----------------------------------------------------------------------------
(* C8 *)

\* C8: once ready, a call that does not return the fallback returns
\* <base>#list=<slug>&display=table with <slug> the value stored under the
\* trimmed title when that key is stored, otherwise the value stored under
\* the trimmed and lowercased title.
C8_HitReturnsStoredSlugURL ==
    (/\ isLoaded
     /\ lastCall.made
     /\ IsString(lastCall.title)
     /\ lastCall.result # FallbackOf(lastCall.fallbackURL))
    => LET exact == Trim(lastCall.title)
           lower == ToLowerCase(Trim(lastCall.title))
       IN  \/ /\ exact \in DOMAIN listsMapping
              /\ lastCall.result = ProjectPageURL(listsMapping[exact])
           \/ /\ exact \notin DOMAIN listsMapping
              /\ lower \in DOMAIN listsMapping
              /\ lastCall.result = ProjectPageURL(listsMapping[lower])

-----------------------------------------------------------------------------
(* C9 *)

\* the row has a non-empty trimmed title and a non-empty trimmed slug
ValidRow(row) == Truthy(OptTrim(row.Title)) /\ Truthy(OptTrim(row.Feed))

\* C9: after a successful init() (the only one to have stored rows), every
\* key is non-empty; every row with a title and a slug has an entry under
\* its title and one under its lowercased title, both holding that row's
\* slug; every key comes from such a row.
C9_TableHoldsEveryValidRow ==
    (/\ lastOutcome = "ok"
     /\ Cardinality(Builders) = 1
     /\ Cardinality(Succeeded) = 1)
    => /\ \A key \in DOMAIN listsMapping : key # <<>>
       /\ \A i \in 1..Len(lastBuilt) :
             LET title == OptTrim(lastBuilt[i].Title)
                 feed == OptTrim(lastBuilt[i].Feed)
             IN  ValidRow(lastBuilt[i])
                 => /\ title \in DOMAIN listsMapping
                    /\ listsMapping[title] = feed
                    /\ ToLowerCase(title) \in DOMAIN listsMapping
                    /\ listsMapping[ToLowerCase(title)] = feed
       /\ \A key \in DOMAIN listsMapping :
             \E i \in 1..Len(lastBuilt) :
                 /\ ValidRow(lastBuilt[i])
                 /\ key \in {OptTrim(lastBuilt[i].Title),
                             ToLowerCase(OptTrim(lastBuilt[i].Title))}

-----------------------------------------------------------------------------
(* C10 *)

\* the record is among the results
Found(result, record) == \E j \in 1..Len(result) : result[j].item = record

\* C10 as claimed: an exact-mode search for any substring (of one
\* character or more) of a record's title or description, with any index,
\* returns that record.
C10_SubstringFindsRecord ==
    (lastSearch.made /\ ~lastSearch.useFuzzy /\ lastSearch.query # <<>>)
    => \A i \in 1..Len(feeds) :
         (\/ Includes(feeds[i].Title, lastSearch.query)
          \/ Includes(feeds[i].Description, lastSearch.query))
         => Found(lastSearch.result, feeds[i])

\* C10 as amended: the same for every substring that is not empty or
\* white space only.
C10_NonBlankSubstringFindsRecord ==
    (/\ lastSearch.made
     /\ ~lastSearch.useFuzzy
     /\ Trim(lastSearch.query) # <<>>)
    => \A i \in 1..Len(feeds) :
         (\/ Includes(feeds[i].Title, lastSearch.query)
          \/ Includes(feeds[i].Description, lastSearch.query))
         => Found(lastSearch.result, feeds[i])

\* with an index present, an exact search for an upper-case substring of
\* a title returned the record
C10_Witness ==
    /\ lastSearch.made
    /\ ~lastSearch.useFuzzy
    /\ fuse.built
    /\ lastSearch.query # ToLowerCase(lastSearch.query)
    /\ Trim(lastSearch.query) # lastSearch.query
    /\ \E i \in 1..Len(feeds) :
          /\ Includes(feeds[i].Title, lastSearch.query)
          /\ Found(lastSearch.result, feeds[i])

-----------------------------------------------------------------------------
(* C11 *)

\* the search just made ran the exact branch
ExactSearchMade ==
    /\ lastSearch.made
    /\ (~lastSearch.useFuzzy \/ ~fuse.built)

\* the title or the description contains the query, letter case aside
FieldContains(f, query) ==
    \/ Includes(ToLowerCase(f.Title), ToLowerCase(query))
    \/ Includes(ToLowerCase(f.Description), ToLowerCase(query))

\* C11 as claimed: when useFuzzy is false or the index is absent, a record
\* is in the result if and only if its title or its description contains
\* the lowercased query, letter case aside.
C11_ExactIffFieldContains ==
    ExactSearchMade
    => \A i \in 1..Len(feeds) :
         Found(lastSearch.result, feeds[i])
         <=> FieldContains(feeds[i], lastSearch.query)

\* C11 as amended: the same for every query that is not empty or white
\* space only; team, tags and location never make a record match.
C11_NonBlankExactIffFieldContains ==
    (ExactSearchMade /\ Trim(lastSearch.query) # <<>>)
    => \A i \in 1..Len(feeds) :
         Found(lastSearch.result, feeds[i])
         <=> FieldContains(feeds[i], lastSearch.query)

\* an exact search found one record and left out another whose team
\* contains the query
C11_Witness ==
    /\ ExactSearchMade
    /\ Trim(lastSearch.query) # <<>>
    /\ \E i, j \in 1..Len(feeds) :
          /\ Includes(ToLowerCase(feeds[i].Team), ToLowerCase(lastSearch.query))
          /\ ~Found(lastSearch.result, feeds[i])
          /\ Found(lastSearch.result, feeds[j])

-----------------------------------------------------------------------------
(* C12 *)

\* the items of result are records of fs at strictly increasing positions
IsSubsequence(result, fs) ==
    \E at \in [1..Len(result) -> 1..Len(fs)] :
        /\ \A j, k \in 1..Len(result) : j < k => at[j] < at[k]
        /\ \A j \in 1..Len(result) : result[j].item = fs[at[j]]

\* C12: the result of an exact-mode search is a subsequence of the input
\* record sequence, each matching position once and in input order, and
\* no entry carries a score.
C12_ExactResultInInputOrder ==
    ExactSearchMade
    => /\ IsSubsequence(lastSearch.result, feeds)
       /\ \A j \in 1..Len(lastSearch.result) :
             DOMAIN lastSearch.result[j] = {"item"}
       /\ Trim(lastSearch.query) # <<>>
          => Len(lastSearch.result)
               = Cardinality({i \in 1..Len(feeds) :
                                 FieldContains(feeds[i], lastSearch.query)})

\* an exact search, made with an index at hand, returned two different
\* records
C12_Witness ==
    /\ lastSearch.made
    /\ ~lastSearch.useFuzzy
    /\ fuse.built
    /\ Len(lastSearch.result) = 2
    /\ lastSearch.result[1].item # lastSearch.result[2].item
    /\ lastSearch.result[1].item = feeds[1]

-----------------------------------------------------------------------------
(* C13 *)

\* C13: for every record set, every index and both values of useFuzzy, a
\* query that is empty or white space only returns the empty list.
C13_BlankQueryFindsNothing ==
    (lastSearch.made /\ Trim(lastSearch.query) = <<>>)
    => lastSearch.result = <<>>

\* a white-space query was searched in fuzzy mode on an index over records
\* whose titles contain a space
C13_Witness ==
    /\ lastSearch.made
    /\ lastSearch.query = <<" ", " ">>
    /\ lastSearch.useFuzzy
    /\ fuse.built
    /\ \E i \in 1..Len(feeds) : Includes(feeds[i].Title, <<" ">>)
    /\ lastSearch.result = <<>>

-----------------------------------------------------------------------------
(* C14 *)

\* C14: a fuzzy search with no index returns what the exact search for the
\* same query over the same records returns, and raises nothing.
C14_FuzzyWithoutIndexIsExact ==
    (lastSearch.made /\ lastSearch.useFuzzy /\ ~fuse.built)
    => /\ \A j \in 1..Len(lastSearch.result) :
             "error" \notin DOMAIN lastSearch.result[j]
       /\ lastSearch.result
            = searchFeeds(lastSearch.query, feeds, NoIndex, FALSE, NoDist)

\* fuzzy mode was asked for with no index, and records came back
C14_Witness ==
    /\ lastSearch.made
    /\ lastSearch.useFuzzy
    /\ ~fuse.built
    /\ lastSearch.result # <<>>
    /\ Len(lastSearch.result) < Len(feeds)

-----------------------------------------------------------------------------
(* C15 *)

\* the search just made asked the index
FuzzySearchMade ==
    /\ lastSearch.made
    /\ lastSearch.useFuzzy
    /\ fuse.built

\* the index was built with the slider at one value and the slider has
\* another now
Retuned ==
    /\ fuse.built
    /\ callbacks[1].th # thresholdSlider

\* C15: after any interleaving of the load completing and slider changes,
\* an index that exists has the slider's value as its threshold, and every
\* fuzzy search returns what the library finds within that threshold.
C15_IndexThresholdIsSliderValue ==
    /\ fuse.built => fuse.threshold = thresholdSlider
    /\ FuzzySearchMade
       => lastSearch.result
            = FuseSearch(initializeFuzzySearch(feeds, thresholdSlider), fuseDist)

\* the slider was raised after the index was built, and the fuzzy search
\* that followed returned a match the first threshold would have left out
C15_Witness ==
    /\ FuzzySearchMade
    /\ Retuned
    /\ \E j \in 1..Len(lastSearch.result) :
          lastSearch.result[j].score > callbacks[1].th

-----------------------------------------------------------------------------
(* C16 *)

\* the documents a fuzzy result holds, by position in the index
Hits(result) == {result[j].refIndex : j \in 1..Len(result)}

\* scores never decrease along the result
Ascending(result) ==
    \A j, k \in 1..Len(result) : j < k => result[j].score <= result[k].score

\* a fuzzy search is made again for the same query on the same index, the
\* threshold not lowered
SameSearchHigherThreshold ==
    /\ FuzzySearchMade
    /\ FuzzySearchMade'
    /\ lastSearch'.query = lastSearch.query
    /\ fuse'.docs = fuse.docs
    /\ fuse'.threshold >= fuse.threshold

-----------------------------------------------------------------------------
(* C17 *)

\* C17: when the sheet parses to zero rows the error callback is invoked
\* and the success callback is not, the record set stays empty and no
\* index is built; no search ever runs on an empty record set.
C17_EmptySourceIsLoadError ==
    /\ (rawRows.parsed /\ Len(rawRows.data) = 0)
       => /\ callbacks = <<OnError>>
          /\ searchResultsDiv = [kind |-> "error", message |-> "NoData"]
          /\ feeds = <<>>
          /\ fuse = NoIndex
    /\ lastSearch.made => Len(feeds) > 0

\* the sheet had no rows, the user typed a query in fuzzy mode, and no
\* search ran
C17_Witness ==
    /\ rawRows.parsed
    /\ Len(rawRows.data) = 0
    /\ Trim(searchInput) # <<>>
    /\ fuzzyCheckbox
    /\ lastSearch = NoSearch
    /\ searchResultsDiv = [kind |-> "error", message |-> "NoData"]

-----------------------------------------------------------------------------
(* C18 *)

SearchableFields == {"Title", "Description", "Team", "Tags", "Location"}

\* C18: every record loadProjectFeeds produces has a string in each of
\* Title, Description, Team, Tags and Location, and a non-empty Title.
C18_RecordsAreNormalized ==
    \A i \in 1..Len(feeds) :
        /\ \A field \in SearchableFields : IsString(feeds[i][field])
        /\ feeds[i].Title # <<>>

\* a row with a white-space title, an empty alias and no team column was
\* loaded: the title is the placeholder and the team the empty string
C18_Witness ==
    /\ Len(feeds) = 1
    /\ feeds[1]._raw.Title = <<" ">>
    /\ feeds[1]._raw.Name = <<>>
    /\ feeds[1]._raw.Team = Undefined
    /\ feeds[1].Title = NoTitle
    /\ feeds[1].Team = <<>>

-----------------------------------------------------------------------------
(* C19 *)

\* a step of a listener: no load callback is invoked and no init() moves
QueryStep == callbacks' = callbacks /\ pc' = pc

\* C19 as claimed: searches and resolutions leave the records, the index,
\* the table and the ready flag as they are; these change only in a step
\* of a load or of an init().
C19_OnlyLoadsChangeSharedState ==
    [][QueryStep => UNCHANGED <<feeds, fuse, listsMapping, isLoaded>>]_vars

\* C19 as amended: the same, except that a slider change sets the
\* threshold of the index that exists.
C19_OnlyLoadsAndRetuneChangeSharedState ==
    [][QueryStep
       => /\ UNCHANGED <<feeds, listsMapping, isLoaded>>
          /\ \/ fuse' = fuse
             \/ /\ thresholdSlider' # thresholdSlider
                /\ fuse.built
                /\ fuse' = [fuse EXCEPT !.threshold = thresholdSlider']]_vars

\* a search was rendered through the ready resolver, one card linking to
\* a project page; the records are those the load made and the table
\* holds what init() stored
C19_Witness ==
    /\ lastSearch.made
    /\ isLoaded
    /\ searchResultsDiv.kind = "cards"
    /\ \E j \in 1..Len(searchResultsDiv.cards) :
          searchResultsDiv.cards[j].href = ProjectPageURL(<<"x">>)
    /\ feeds = NormalizeAll(rawRows.data)
    /\ DOMAIN listsMapping = {<<"A">>, <<"a">>}
    /\ Retuned

-----------------------------------------------------------------------------
(* C20 *)

\* the load has ended with the error callback
LoadFailed ==
    /\ callbacks # <<>>
    /\ callbacks[Len(callbacks)] = OnError

\* C20: in every state after the error callback has fired some action of
\* the page is enabled that puts a load in flight again.
C20_FailedLoadCanRetry ==
    LoadFailed => ENABLED (PageNext /\ LoadInFlight')

-----------------------------------------------------------------------------
(* C21 *)

\* the callback the feed calls for: onSuccess when results.data has at
\* least one row, onError otherwise
ExpectedCallback ==
    IF rawRows.parsed /\ Len(rawRows.data) > 0 THEN "onSuccess" ELSE "onError"

\* C21: once loadProjectFeeds has invoked a callback it has invoked exactly
\* one, the success callback when the feed has at least one row and the
\* error callback otherwise; the error callback never follows the success
\* callback of the same load.
C21_ExactlyOneCallback ==
    ~LoadInFlight
    => /\ Len(callbacks) = 1
       /\ callbacks[1].fn = ExpectedCallback

-----------------------------------------------------------------------------
(* C22 *)

\* C22: a no-results message shown from a response names the query sent in
\* that response's own request, and this.lastResults is only ever a result
\* with success true and matches present.
C22_RenderedNamesOwnQuery ==
    /\ content.kind = "noResults" => content.query = rendered.request.query
    /\ lastResults.set
       => lastResults.result.success /\ lastResults.result.has # "none"

=============================================================================
